---------------------------- MODULE Spec2Model ----------------------------
(***************************************************************************)
(* Narrative Flow AI (src/main.py): a FastAPI service with three routes.   *)
(*                                                                         *)
(*   POST /analyze-narrative  analyze_narrative_endpoint                   *)
(*   GET  /plots/{filename}   serve_plot                                   *)
(*   GET  /                   read_root                                    *)
(*                                                                         *)
(* The handlers are plain `def` functions, which FastAPI runs on a thread  *)
(* pool, so several analysis requests may be in flight at once.  A request *)
(* is split at the points where it touches state shared by the process:    *)
(* the pyplot figure registry (matplotlib's current figure is global to    *)
(* the process) and the "plots" directory.                                 *)
(*                                                                         *)
(* Polarities are counted in hundredths: 50 stands for 0.5, so that the    *)
(* thresholds 0.2 and 0.1 of get_structural_feedback are 20 and 10.        *)
(* Arithmetic is exact; the rounding of binary floating point is not       *)
(* modelled.  Strings built by formatting are sequences of their parts.    *)
(***************************************************************************)
EXTENDS Integers, Sequences, FiniteSets, TLC

\* ------------------------------------------------------------------ bounds
\* Requests that arrive during one run of the service.
NumReq == 2
\* Size of the space uuid.uuid4() draws from (2^122 in the program).
NumUuids == 2
\* Longest text, in sentences.
MaxLen == 4

Requests == 1..NumReq

\* Polarity values (hundredths) a sentence may be scored with.
Pol == {-100, -90, 5, 6, 10, 30, 50, 90, 100}

\* Every text of at most MaxLen sentences; a text is given by the polarity
\* TextBlob assigns to each of its sentences, in order.
AllTexts == UNION {[1..n -> Pol] : n \in 0..MaxLen}

\* The texts sent by concurrently running clients.
ConcTexts == {<<>>, <<5>>}

\* One text, where only the names and the files of the requests matter.
OneText == {<<5>>}

\* ------------------------------------------------------- program constants
\* len(polarities) > 2
FlatMinLen == 2
\* (max_pol - min_pol) < 0.2
FlatThreshold == 20
\* polarities[-1] < 0.1
LowThreshold == 10

FLAT == "The emotional arc is a bit flat. Try adding more variation in tone to make it more engaging."
LOW == "The sentiment at the end is low. A stronger, more positive conclusion could make a better impression."
GREAT == "Great job! The narrative flow seems well-structured."
ROOT_MESSAGE == "Narrative Flow AI is up and running!"

VARIABLES
    started,      \* the module has been imported (lines 13-15 have run)
    dirExists,    \* the directory "plots" exists
    files,        \* the files of "plots": path -> content
    figs,         \* pyplot's open figures in activation order; the last is current
    pc,           \* pc[r]: where request r is
    polarities,   \* polarities[r]: the scorer's result
    feedback,     \* feedback[r]: the result of get_structural_feedback
    uuid,         \* uuid[r]: the value uuid.uuid4() returned to r
    filename,     \* filename[r]
    response,     \* response[r]: the JSON body returned, once it is
    reply,        \* the last response of serve_plot or read_root
    overwrites    \* history: <<r, s>> when r's write replaced a file written by s

vars == <<started, dirExists, files, figs, pc, polarities, feedback, uuid,
          filename, response, reply, overwrites>>

\* ------------------------------------------------------------ pure helpers
Range(s) == {s[i] : i \in DOMAIN s}

Max(s) == CHOOSE x \in Range(s) : \A y \in Range(s) : y <= x
Min(s) == CHOOSE x \in Range(s) : \A y \in Range(s) : x <= y

RECURSIVE Sum(_)
Sum(s) == IF s = <<>> THEN 0 ELSE Head(s) + Sum(Tail(s))

\* analyze_sentiment: one polarity per sentence, in source order.
analyze_sentiment(text) == [i \in 1..Len(text) |-> text[i]]

\* Rule 1 with <= for <.
FlatRuleInclusive(p, fb) ==
    IF Len(p) > FlatMinLen /\ Max(p) - Min(p) <= FlatThreshold
    THEN Append(fb, FLAT) ELSE fb

\* get_structural_feedback, rule by rule.
FlatRule(p, fb) ==
    IF Len(p) > FlatMinLen /\ Max(p) - Min(p) < FlatThreshold
    THEN Append(fb, FLAT) ELSE fb

LowRule(p, fb) ==
    IF Len(p) > 0 /\ p[Len(p)] < LowThreshold
    THEN Append(fb, LOW) ELSE fb

\* The fallback left out.
FallbackRuleAbsent(fb) == fb

\* The fallback appended whatever the rules found.
FallbackRuleAlways(fb) == Append(fb, GREAT)

FallbackRule(fb) == IF fb = <<>> THEN Append(fb, GREAT) ELSE fb

get_structural_feedback(p) == FallbackRule(LowRule(p, FlatRule(p, <<>>)))

\* The mean without its guard for the empty sequence.
average_polarityUnguarded(p) == [num |-> Sum(p), den |-> Len(p)]

\* The mean over one entry too few.
average_polarityShort(p) ==
    IF p # <<>> THEN [num |-> Sum(Tail(p)), den |-> Len(p)]
    ELSE [num |-> 0, den |-> 1]

\* sum(polarities) / len(polarities) if polarities else 0, as a fraction of
\* hundredths.
average_polarity(p) ==
    IF p # <<>> THEN [num |-> Sum(p), den |-> Len(p)]
    ELSE [num |-> 0, den |-> 1]

\* str(uuid.uuid4())
Uuids == {ToString(i) : i \in 1..NumUuids}

\* A filename that leaves the identifier out.
FilenameFixed(u) == <<"plot_", ".png">>

\* f"plot_{uuid.uuid4()}.png"
Filename(u) == <<"plot_", u, ".png">>

\* os.path.join("plots", filename)
PlotPath(fn) == <<"plots/">> \o fn

\* The path on disk returned in place of the URL.
PlotUrlOnDisk(fn) == <<"plots/">> \o fn

\* f"/plots/{filename}"
PlotUrl(fn) == <<"/plots/">> \o fn

\* The route /plots/{filename}: the path parameter of a URL.
RouteFilename(url) == Tail(url)

AnalysisResponse(p, fb, fn) ==
    [num_sentences |-> Len(p),
     average_polarity |-> average_polarity(p),
     feedback |-> fb,
     emotional_arc_plot_url |-> PlotUrl(fn)]

NoResponse == <<>>
NoReply == [endpoint |-> "none", name |-> <<>>, status |-> "none", body |-> <<>>]

\* ------------------------------------------------------------------ pyplot
\* A figure is the sequence of the lines plotted on it; a line is its data.
NewFigure == <<>>

\* plt.gcf(): the figures, with one created when none is open.
Gcf == IF figs = <<>> THEN <<NewFigure>> ELSE figs

OnCurrent(fs, f) == [fs EXCEPT ![Len(fs)] = f]

\* What savefig writes: the image of a figure, and (history) who wrote it.
Image(r, f) == [writer |-> r, lines |-> f]

\* ------------------------------------------------------------------- state
Init ==
    /\ started = TRUE
    /\ dirExists = TRUE
    /\ files = <<>>
    /\ figs = <<>>
    /\ pc = [r \in Requests |-> "idle"]
    /\ polarities = [r \in Requests |-> <<>>]
    /\ feedback = [r \in Requests |-> <<>>]
    /\ uuid = [r \in Requests |-> ""]
    /\ filename = [r \in Requests |-> <<>>]
    /\ response = [r \in Requests |-> NoResponse]
    /\ reply = NoReply
    /\ overwrites = {}

\* The process before main.py is imported; "plots" may or may not be there.
InitBoot ==
    /\ started = FALSE
    /\ dirExists \in BOOLEAN
    /\ files = <<>>
    /\ figs = <<>>
    /\ pc = [r \in Requests |-> "idle"]
    /\ polarities = [r \in Requests |-> <<>>]
    /\ feedback = [r \in Requests |-> <<>>]
    /\ uuid = [r \in Requests |-> ""]
    /\ filename = [r \in Requests |-> <<>>]
    /\ response = [r \in Requests |-> NoResponse]
    /\ reply = NoReply
    /\ overwrites = {}

\* Lines 13-15: if not os.path.exists("plots"): os.makedirs("plots").
Startup ==
    /\ ~started
    /\ started' = TRUE
    /\ dirExists' = TRUE
    /\ UNCHANGED <<files, figs, pc, polarities, feedback, uuid, filename,
                   response, reply, overwrites>>

\* Lines 80-85: the scorer, the rules and the filename; all local to the
\* request.  The text is one of texts, and uuid.uuid4() returns one of ids.
Begin(r, texts, ids) ==
    /\ started
    /\ pc[r] = "idle"
    /\ \E text \in texts, u \in ids :
        LET p == analyze_sentiment(text) IN
        /\ polarities' = [polarities EXCEPT ![r] = p]
        /\ feedback' = [feedback EXCEPT ![r] = get_structural_feedback(p)]
        /\ uuid' = [uuid EXCEPT ![r] = u]
        /\ filename' = [filename EXCEPT ![r] = Filename(u)]
    /\ pc' = [pc EXCEPT ![r] = "named"]
    /\ UNCHANGED <<started, dirExists, files, figs, response, reply, overwrites>>

\* Line 31: plt.figure(figsize=(10, 5)).
Figure(r) ==
    /\ pc[r] = "named"
    /\ figs' = Append(figs, NewFigure)
    /\ pc' = [pc EXCEPT ![r] = "figure"]
    /\ UNCHANGED <<started, dirExists, files, polarities, feedback, uuid,
                   filename, response, reply, overwrites>>

\* Lines 32-38: plt.plot(polarities, ...), then the title, labels, reference
\* line, grid and y range, all on the current figure.
Plot(r) ==
    /\ pc[r] = "figure"
    /\ LET fs == Gcf IN
        figs' = OnCurrent(fs, Append(fs[Len(fs)], polarities[r]))
    /\ pc' = [pc EXCEPT ![r] = "plotted"]
    /\ UNCHANGED <<started, dirExists, files, polarities, feedback, uuid,
                   filename, response, reply, overwrites>>

\* A savefig that would create the directory first (the program has none).
SaveFigMakedirs(r) ==
    /\ pc[r] = "plotted"
    /\ LET fs == Gcf
           path == PlotPath(filename[r]) IN
        /\ figs' = fs
        /\ dirExists' = TRUE
        /\ files' = (path :> Image(r, fs[Len(fs)])) @@ files
        /\ overwrites' = IF path \in DOMAIN files
                         THEN overwrites \cup {<<r, files[path].writer>>}
                         ELSE overwrites
        /\ pc' = [pc EXCEPT ![r] = "saved"]
    /\ UNCHANGED <<started, polarities, feedback, uuid, filename, response, reply>>

\* Lines 39-40: plt.savefig(os.path.join("plots", filename)) writes the
\* current figure, replacing a file of that name; with no directory the open
\* fails and the exception ends the request (plt.close() is not reached).
SaveFig(r) ==
    /\ pc[r] = "plotted"
    /\ LET fs == Gcf
           path == PlotPath(filename[r]) IN
        /\ figs' = fs
        /\ IF dirExists
           THEN /\ files' = (path :> Image(r, fs[Len(fs)])) @@ files
                /\ overwrites' = IF path \in DOMAIN files
                                 THEN overwrites \cup {<<r, files[path].writer>>}
                                 ELSE overwrites
                /\ pc' = [pc EXCEPT ![r] = "saved"]
           ELSE /\ pc' = [pc EXCEPT ![r] = "failed"]
                /\ UNCHANGED <<files, overwrites>>
    /\ UNCHANGED <<started, dirExists, polarities, feedback, uuid, filename,
                   response, reply>>

\* Lines 41-42 and 88-99: plt.close() closes the current figure; the rest is
\* local: the URL and the response.
Finish(r) ==
    /\ pc[r] = "saved"
    /\ figs' = IF figs = <<>> THEN figs ELSE SubSeq(figs, 1, Len(figs) - 1)
    /\ response' = [response EXCEPT ![r] =
                        AnalysisResponse(polarities[r], feedback[r], filename[r])]
    /\ pc' = [pc EXCEPT ![r] = "done"]
    /\ UNCHANGED <<started, dirExists, files, polarities, feedback, uuid,
                   filename, reply, overwrites>>

\* Lines 103-105: FileResponse(os.path.join("plots", filename)).  Starlette's
\* FileResponse stats the file when the response is sent and raises
\* RuntimeError("File at path ... does not exist.") when it is missing, which
\* the server turns into its unhandled-failure response.
serve_plot(fn) ==
    /\ started
    /\ LET path == PlotPath(fn) IN
        reply' = IF dirExists /\ path \in DOMAIN files
                 THEN [endpoint |-> "plots", name |-> fn, status |-> "ok",
                       body |-> <<files[path].lines>>]
                 ELSE [endpoint |-> "plots", name |-> fn,
                       status |-> "unhandled_failure", body |-> <<>>]
    /\ UNCHANGED <<started, dirExists, files, figs, pc, polarities, feedback,
                   uuid, filename, response, overwrites>>

\* Lines 108-110.
read_root ==
    /\ started
    /\ reply' = [endpoint |-> "root", name |-> <<>>, status |-> "ok",
                 body |-> <<ROOT_MESSAGE>>]
    /\ UNCHANGED <<started, dirExists, files, figs, pc, polarities, feedback,
                   uuid, filename, response, overwrites>>

\* The environment: someone removes "plots" while the service runs.
RemoveDir ==
    /\ started
    /\ dirExists
    /\ dirExists' = FALSE
    /\ files' = <<>>
    /\ UNCHANGED <<started, figs, pc, polarities, feedback, uuid, filename,
                   response, reply, overwrites>>

\* The names a client may ask serve_plot for.
GetNames == {Filename(u) : u \in Uuids} \cup {<<"nonexistent.png">>}

\* The service with concurrent clients.
Next ==
    \/ \E r \in Requests : Begin(r, ConcTexts, Uuids)
    \/ \E r \in Requests : Figure(r)
    \/ \E r \in Requests : Plot(r)
    \/ \E r \in Requests : SaveFig(r)
    \/ \E r \in Requests : Finish(r)
    \/ \E fn \in GetNames : serve_plot(fn)
    \/ read_root

Spec == Init /\ [][Next]_vars

\* One analysis request, over every text.
NextRules ==
    \/ Begin(1, AllTexts, {ToString(1)})
    \/ Figure(1)
    \/ Plot(1)
    \/ SaveFig(1)
    \/ Finish(1)

SpecRules == Init /\ [][NextRules]_vars

\* The service with concurrent clients that all send the same text.
NextStore ==
    \/ \E r \in Requests : Begin(r, OneText, Uuids)
    \/ \E r \in Requests : Figure(r)
    \/ \E r \in Requests : Plot(r)
    \/ \E r \in Requests : SaveFig(r)
    \/ \E r \in Requests : Finish(r)
    \/ \E fn \in GetNames : serve_plot(fn)
    \/ read_root

SpecStore == Init /\ [][NextStore]_vars

\* The service from process start, in an environment that may remove "plots".
NextEnv ==
    \/ Startup
    \/ RemoveDir
    \/ \E r \in Requests : Begin(r, OneText, Uuids)
    \/ \E r \in Requests : Figure(r)
    \/ \E r \in Requests : Plot(r)
    \/ \E r \in Requests : SaveFig(r)
    \/ \E r \in Requests : Finish(r)

SpecEnv == InitBoot /\ [][NextEnv]_vars

\* ------------------------------------------------------------------ claims
Arrived(r) == pc[r] # "idle"
Done(r) == pc[r] = "done"
Saved(r) == pc[r] \in {"saved", "done"}

Count(fb, m) == Cardinality({i \in DOMAIN fb : fb[i] = m})

\* The conditions of rules 1 and 2, stated on the sequence itself.
IsFlat(p) == Len(p) > 2 /\ \A i, j \in DOMAIN p : p[i] - p[j] < 20
EndsLow(p) == Len(p) > 0 /\ p[Len(p)] < 10

\* C1: for every polarity sequence (empty, of length 1 or 2, or one on which
\* rule 1 or rule 2 fires) the feedback list has at least one entry, in the
\* request and in its response.
C1_FeedbackNeverEmpty ==
    \A r \in Requests :
        /\ Arrived(r) => Len(feedback[r]) >= 1
        /\ Done(r) => Len(response[r].feedback) >= 1

C1_Witness ==
    /\ Done(1)
    /\ polarities[1] = <<>>
    /\ Len(response[1].feedback) = 1

\* C2: the flat message is in the feedback exactly when the sequence has more
\* than 2 entries and max - min < 0.2; the low-ending message exactly when
\* the sequence is non-empty and its last entry is < 0.1 (both strict); each
\* at most once, the flat message first.  [0.05, 0.06] gives only the
\* low-ending message and [0.5, 0.5, 0.5, 0.5] only the flat one.
C2_RulesFireExactly ==
    \A r \in Requests : Arrived(r) =>
        LET p == polarities[r]
            fb == feedback[r] IN
        /\ FLAT \in Range(fb) <=> IsFlat(p)
        /\ LOW \in Range(fb) <=> EndsLow(p)
        /\ Count(fb, FLAT) <= 1
        /\ Count(fb, LOW) <= 1
        /\ (IsFlat(p) /\ EndsLow(p)) => fb = <<FLAT, LOW>>
        /\ p = <<5, 6>> => fb = <<LOW>>
        /\ p = <<50, 50, 50, 50>> => fb = <<FLAT>>
        /\ p = <<10, 30, 30>> => fb = <<GREAT>>
        /\ p = <<50, 10>> => fb = <<GREAT>>

C2_Witness ==
    /\ Done(1)
    /\ polarities[1] = <<5, 6, 5>>
    /\ response[1].feedback = <<FLAT, LOW>>

\* C3: the fallback message is in the feedback if and only if neither rule 1
\* nor rule 2 appended a message, and then it is the only entry; it never
\* appears with the flat or the low-ending message.  [-0.9, 0.9, -0.9, 0.9]
\* gives exactly the fallback.
C3_FallbackOnlyAlone ==
    \A r \in Requests : Arrived(r) =>
        LET p == polarities[r]
            fb == feedback[r] IN
        /\ GREAT \in Range(fb) <=> (~IsFlat(p) /\ ~EndsLow(p))
        /\ GREAT \in Range(fb) => fb = <<GREAT>>
        /\ p = <<-90, 90, -90, 90>> => fb = <<GREAT>>

C3_Witness ==
    /\ Done(1)
    /\ polarities[1] = <<-90, 90, -90, 90>>
    /\ response[1].feedback = <<GREAT>>

\* C4: a request whose text has no sentence never fails, can always take its
\* next step until it has returned, and returns num_sentences = 0,
\* average_polarity = 0 and the fallback message as the whole feedback.
C4_EmptyText ==
    \A r \in Requests : (Arrived(r) /\ polarities[r] = <<>>) =>
        /\ pc[r] # "failed"
        /\ ~Done(r) => ENABLED (Figure(r) \/ Plot(r) \/ SaveFig(r) \/ Finish(r))
        /\ Done(r) =>
            /\ response[r].num_sentences = 0
            /\ response[r].average_polarity.num = 0
            /\ response[r].average_polarity.den # 0
            /\ response[r].feedback = <<GREAT>>

C4_Witness ==
    /\ Done(1)
    /\ polarities[1] = <<>>
    /\ response[1].num_sentences = 0
    /\ PlotPath(filename[1]) \in DOMAIN files

HasData(line) == line # <<>>
Visible(lines) == SelectSeq(lines, HasData)

\* C6: the plot a request saves is drawn from that request's own polarity
\* sequence only: the figure it saves shows its line and no other.
C6_OwnFigureOnly ==
    \A path \in DOMAIN files :
        Visible(files[path].lines) = Visible(<<polarities[files[path].writer]>>)

\* C7: GET /plots/{filename} for a name with no file answers not-found.
C7_MissingIsNotFound ==
    (reply.endpoint = "plots" /\ PlotPath(reply.name) \notin DOMAIN files)
        => reply.status = "not_found"

\* The mean of a sequence, summed by index from its end.
RECURSIVE SumTo(_, _)
SumTo(p, n) == IF n = 0 THEN 0 ELSE p[n] + SumTo(p, n - 1)

\* C8: num_sentences is the length of the polarity sequence and
\* average_polarity its arithmetic mean (sum divided by length), 0 when it is
\* empty, with no division by zero; [1.0, -1.0, 0.5] gives 0.5/3.
C8_CountAndMean ==
    \A r \in Requests : Done(r) =>
        LET p == polarities[r]
            a == response[r].average_polarity IN
        /\ response[r].num_sentences = Len(p)
        /\ a.den # 0
        /\ a.num * Len(p) = SumTo(p, Len(p)) * a.den
        /\ p = <<>> => a.num = 0
        /\ p = <<100, -100, 50>> => (a.num = 50 /\ a.den = 3)

C8_Witness ==
    /\ Done(1)
    /\ polarities[1] = <<100, -100, 50>>
    /\ response[1].average_polarity = [num |-> 50, den |-> 3]
    /\ response[1].num_sentences = 3

\* C9 as stated: whenever create_sentiment_plot reaches its save, the
\* directory exists afterwards and the plot file is in it.
C9_PlotterCreatesDirectory ==
    [][\A r \in Requests :
        (pc[r] = "plotted" /\ pc'[r] # "plotted") =>
            (dirExists' /\ PlotPath(filename[r]) \in DOMAIN files')]_vars

\* C9, amended: the directory is created when the module is imported, if it
\* is absent; create_sentiment_plot never creates it: a save with the
\* directory missing fails the request, writes nothing and leaves the
\* directory missing, and a save with the directory present puts the file
\* in it.
C9_DirectoryOnlyAtImport ==
    [][/\ (~started /\ started') => dirExists'
       /\ \A r \in Requests :
            /\ (pc[r] = "plotted" /\ pc'[r] # "plotted" /\ ~dirExists) =>
                (pc'[r] = "failed" /\ ~dirExists' /\ files' = files)
            /\ (pc[r] = "plotted" /\ pc'[r] # "plotted" /\ dirExists) =>
                (pc'[r] = "saved" /\ dirExists'
                    /\ PlotPath(filename[r]) \in DOMAIN files')
            /\ (pc[r] # pc'[r]) => dirExists' = dirExists]_vars

C9_Witness ==
    /\ \E r \in Requests : pc[r] = "failed"
    /\ ~dirExists

=============================================================================
